---- MODULE Spec2Model ----
(***************************************************************************)
(* The DrawingCanvas component (components/Canvas): a raster canvas, the   *)
(* pointer handlers that draw and erase strokes on it, and the undo/redo   *)
(* history of whole-canvas snapshots driven by the document's keydown      *)
(* listener.                                                               *)
(*                                                                         *)
(* The raster is one row of NumCells cells, each 10 px wide; the canvas    *)
(* content is the set of cells that hold ink.  JavaScript arrays are       *)
(* 0-indexed, TLA+ sequences 1-indexed: At(s, i) is s[i] of the source.    *)
(***************************************************************************)
EXTENDS Integers, Sequences, FiniteSets, Bags, TLC

\* ---------------------------------------------------------------- bounds
NumCells == 2
MaxHistory == 3
MaxLoading == 2

\* ------------------------------------------------------ program constants
EraserWidth == 20
PenWidth == 2
DefaultLineWidth == 1

Cells == 0 .. (NumCells - 1)
Buttons == {0, 1, 2}
Keys == {"z", "y", "a"}
KeyEvents == [key : Keys, ctrlKey : BOOLEAN, metaKey : BOOLEAN]
NoPoint == 0 - 1
Blank == {}

VARIABLES
  canvas,               \* pixels of the <canvas>: the set of inked cells
  ctx,                  \* the 2d context: compositing mode, line width, path
  isDrawing,
  isEraser,
  history,
  redoHistory,
  currentHistoryIndex,
  listener,             \* what the handleKeyDown of the last effect closes over
  registered,           \* the widget's keydown listeners on the document
  mounted,
  loading,              \* bag of Images whose src is set, onload not yet fired
  log,                  \* history variable: the operations performed so far
  lastReq               \* history variable: src of the last undo/redo Image

vars == <<canvas, ctx, isDrawing, isEraser, history, redoHistory,
          currentHistoryIndex, listener, registered, mounted, loading, log,
          lastReq>>

\* ------------------------------------------------------- array primitives
At(s, i) == s[i + 1]

Min(a, b) == IF a < b THEN a ELSE b

Max(a, b) == IF a < b THEN b ELSE a

\* Array.prototype.slice(0, n)
slice(s, n) == SubSeq(s, 1, Min(Max(n, 0), Len(s)))

\* ------------------------------------------------------ canvas primitives
\* canvas.toDataURL(): the PNG encoding of the pixels
toDataURL(c) == [mime |-> "image/png", data |-> c]

\* every data URL the canvas can produce
Images == {toDataURL(c) : c \in SUBSET Cells}

\* the pixels of a decoded Image
Decoded(img) == img.data

\* ctx.drawImage(img, 0, 0) under the context's compositing mode
drawImage(c, img, gco) ==
  IF gco = "source-over" THEN c \cup Decoded(img) ELSE c \ Decoded(img)

\* ctx.clearRect(0, 0, canvas.width, canvas.height)
clearRect(c) == Blank

\* the cells a straight segment from p to q passes through
Segment(p, q) == Min(p, q) .. Max(p, q)

\* the cells within half a line width of the path
Footprint(cells, lineWidth) ==
  {x \in Cells : \E y \in cells :
      (x - y) <= (lineWidth \div 2) \div 10 /\ (y - x) <= (lineWidth \div 2) \div 10}

EmptyPath == [start |-> NoPoint, pos |-> NoPoint, cells |-> {}]

\* ctx.beginPath(); ctx.moveTo(x, y)
beginPathMoveTo(p) == [start |-> p, pos |-> p, cells |-> {}]

\* ctx.lineTo(x, y)
lineTo(path, p) ==
  IF path.pos = NoPoint
    THEN [start |-> p, pos |-> p, cells |-> path.cells]
    ELSE [path EXCEPT !.pos = p, !.cells = @ \cup Segment(path.pos, p)]

\* ctx.closePath(): the subpath is closed back to its first point
closePath(path) ==
  IF path.cells = {} THEN path ELSE [path EXCEPT !.pos = path.start]

\* ctx.stroke(): the whole current path, under the context's mode and width
stroke(c, cx) ==
  IF cx.globalCompositeOperation = "source-over"
    THEN c \cup Footprint(cx.path.cells, cx.lineWidth)
    ELSE c \ Footprint(cx.path.cells, cx.lineWidth)

\* what an Image with this src shows when drawn on a cleared canvas
Rendered(img) == drawImage(clearRect(canvas), img, "source-over")

\* --------------------------------------------------------- history variables
\* log follows the run for as long as it is one of the scenarios of spec
\* section 8, every decode completing before the next operation: an entry per
\* completed stroke (pointer-down with button 0 or 2, then pointer-up), per
\* undo() and per redo(), with the canvas at that moment; a stroke that the
\* pointer leaving ends is "leave", and the first ignored event after a first
\* stroke is noted ("down-other", "idle-move").  Any other run is Off.
Off == <<[op |-> "off", canvas |-> Blank]>>

Ops(l) == [i \in 1 .. Len(l) |-> l[i].op]

Rep(x, n) == [i \in 1 .. n |-> x]

IsPrefix(a, b) == Len(a) <= Len(b) /\ a = SubSeq(b, 1, Len(a))

\* P2: N strokes, N undos, N redos
UndoRedoInverse(n) == Rep("stroke", n) \o Rep("undo", n) \o Rep("redo", n)

\* P3: an undo, a new stroke, a redo
BranchDiscard == <<"stroke", "stroke", "undo", "stroke", "redo">>

\* the scenario: A, B, undo, undo, redo, C, redo
Scenario == <<"stroke", "stroke", "undo", "undo", "redo", "stroke", "redo">>

\* an undo immediately followed by a redo
UndoThenRedo == <<"stroke", "stroke", "undo", "redo">>

\* a stroke that the pointer leaving the canvas ends
LeaveCommit == <<"leave">>

\* a pointer-down with another button, a pointer-move with no stroke active
Ignored == {<<"stroke", "down-other">>, <<"stroke", "idle-move">>}

Scenarios ==
  {UndoRedoInverse(n) : n \in 1 .. MaxHistory}
    \cup {BranchDiscard, Scenario, UndoThenRedo, LeaveCommit} \cup Ignored

Record(op) ==
  LET next == Append(log, [op |-> op, canvas |-> canvas])
  IN IF log # Off /\ \E s \in Scenarios : IsPrefix(Ops(next), s)
       THEN next ELSE Off

\* an event that changes nothing is noted where a scenario has it, and
\* otherwise leaves the log as it is
Note(op) ==
  LET next == Append(log, [op |-> op, canvas |-> canvas])
  IN IF log # Off /\ \E s \in Scenarios : IsPrefix(Ops(next), s)
       THEN next ELSE log

NoReq == <<>>

\* ----------------------------------------------------------------- React
\* the effect of lines 13-36 runs after a render in which history or
\* redoHistory changed: the old listener is removed and the new handleKeyDown,
\* closing over that render's state, is registered
useEffect(h, r, c) ==
  [history |-> h, redoHistory |-> r, currentHistoryIndex |-> c]

\* document.addEventListener("keydown", k), line 31
addEventListener(reg, k) == Append(reg, k)

\* document.removeEventListener("keydown", k), line 34
removeEventListener(reg, k) ==
  IF \E i \in DOMAIN reg : reg[i] = k
    THEN LET i == CHOOSE j \in DOMAIN reg :
                    reg[j] = k /\ \A l \in 1 .. (j - 1) : reg[l] # k
         IN SubSeq(reg, 1, i - 1) \o SubSeq(reg, i + 1, Len(reg))
    ELSE reg

\* the effect that never removes the listener it replaces
runEffectNoCleanup(setH, setR, h, r, c) ==
  IF setH \/ setR
    THEN /\ listener' = useEffect(h, r, c)
         /\ registered' = addEventListener(registered, listener')
    ELSE UNCHANGED <<listener, registered>>

\* the effect with the dependency array [history]
runEffectHistoryOnly(setH, setR, h, r, c) ==
  IF setH
    THEN /\ listener' = useEffect(h, r, c)
         /\ registered' =
              addEventListener(removeEventListener(registered, listener),
                               listener')
    ELSE UNCHANGED <<listener, registered>>

\* the render after a handler that leaves history h, redoHistory r and
\* currentHistoryIndex c.  setH and setR say whether the handler called
\* setHistory and setRedoHistory: every such call of the component stores a
\* new array (a spread, a slice or a literal), so the dependency array
\* [history, redoHistory] of line 36 compares unequal and the effect's
\* cleanup and body run
runEffect(setH, setR, h, r, c) ==
  IF setH \/ setR
    THEN /\ listener' = useEffect(h, r, c)
         /\ registered' =
              addEventListener(removeEventListener(registered, listener),
                               listener')
    ELSE UNCHANGED <<listener, registered>>

Init ==
  /\ canvas = Blank
  /\ ctx = [globalCompositeOperation |-> "source-over",
            lineWidth |-> DefaultLineWidth,
            path |-> EmptyPath]
  /\ isDrawing = FALSE
  /\ isEraser = FALSE
  /\ history = <<>>
  /\ redoHistory = <<>>
  /\ currentHistoryIndex = 0 - 1
  /\ listener = useEffect(<<>>, <<>>, 0 - 1)
  /\ registered = addEventListener(<<>>, listener)
  /\ mounted = TRUE
  /\ loading = EmptyBag
  /\ log = <<>>
  /\ lastReq = NoReq

\* --------------------------------------------------------------- handlers
\* saveStateToHistory that never trims the undone future
saveStateToHistoryNoTrim ==
  /\ Len(history) < MaxHistory
  /\ history' = Append(history, toDataURL(canvas))
  /\ currentHistoryIndex' = currentHistoryIndex + 1
  /\ redoHistory' = <<>>
  /\ runEffect(TRUE, TRUE, history', redoHistory', currentHistoryIndex')

\* saveStateToHistory that leaves redoHistory alone
saveStateToHistoryKeepRedo ==
  LET trimmed == IF currentHistoryIndex < Len(history) - 1
                   THEN slice(history, currentHistoryIndex + 1)
                   ELSE history
  IN /\ Len(trimmed) < MaxHistory
     /\ history' = Append(trimmed, toDataURL(canvas))
     /\ currentHistoryIndex' = currentHistoryIndex + 1
     /\ redoHistory' = redoHistory
     /\ runEffect(TRUE, TRUE, history', redoHistory', currentHistoryIndex')

\* saveStateToHistory that trims one entry too many
saveStateToHistoryTrimShort ==
  LET trimmed == IF currentHistoryIndex < Len(history) - 1
                   THEN slice(history, currentHistoryIndex)
                   ELSE history
  IN /\ Len(trimmed) < MaxHistory
     /\ history' = Append(trimmed, toDataURL(canvas))
     /\ currentHistoryIndex' = currentHistoryIndex + 1
     /\ redoHistory' = <<>>
     /\ runEffect(TRUE, TRUE, history', redoHistory', currentHistoryIndex')

\* saveStateToHistory, lines 39-54
saveStateToHistory ==
  LET imageData == toDataURL(canvas)
      trimmed == IF currentHistoryIndex < Len(history) - 1
                   THEN slice(history, currentHistoryIndex + 1)
                   ELSE history
  IN /\ Len(trimmed) < MaxHistory
     /\ history' = Append(trimmed, imageData)
     /\ currentHistoryIndex' = currentHistoryIndex + 1
     /\ redoHistory' = <<>>
     /\ runEffect(TRUE, TRUE, history', redoHistory', currentHistoryIndex')

\* startDrawing that starts a stroke on every button
startDrawingAnyButton(e) ==
  /\ isDrawing' = TRUE
  /\ ctx' = [globalCompositeOperation |->
               IF e.button = 2 \/ isEraser
                 THEN "destination-out" ELSE "source-over",
             lineWidth |->
               IF e.button = 2 \/ isEraser THEN EraserWidth ELSE PenWidth,
             path |-> beginPathMoveTo(e.offsetX)]

\* startDrawing that takes the mode from the eraser toggle alone
startDrawingToggleOnly(e) ==
  IF e.button = 0 \/ e.button = 2
    THEN /\ isDrawing' = TRUE
         /\ ctx' = [globalCompositeOperation |->
                      IF isEraser THEN "destination-out" ELSE "source-over",
                    lineWidth |-> IF isEraser THEN EraserWidth ELSE PenWidth,
                    path |-> beginPathMoveTo(e.offsetX)]
    ELSE UNCHANGED <<isDrawing, ctx>>

\* startDrawing, lines 57-74
startDrawing(e) ==
  IF e.button = 0 \/ e.button = 2
    THEN /\ isDrawing' = TRUE
         /\ ctx' = [globalCompositeOperation |->
                      IF e.button = 2 \/ isEraser
                        THEN "destination-out" ELSE "source-over",
                    lineWidth |->
                      IF e.button = 2 \/ isEraser
                        THEN EraserWidth ELSE PenWidth,
                    path |-> beginPathMoveTo(e.offsetX)]
    ELSE UNCHANGED <<isDrawing, ctx>>

\* draw that does not test isDrawing
drawAlways(e) ==
  /\ ctx' = [ctx EXCEPT !.path = lineTo(ctx.path, e.offsetX)]
  /\ canvas' = stroke(canvas, ctx')

\* draw, lines 77-82
draw(e) ==
  IF ~isDrawing
    THEN UNCHANGED <<ctx, canvas>>
    ELSE /\ ctx' = [ctx EXCEPT !.path = lineTo(ctx.path, e.offsetX)]
         /\ canvas' = stroke(canvas, ctx')

\* stopDrawing that leaves isDrawing set
stopDrawingStillDrawing ==
  /\ ctx' = [ctx EXCEPT !.path = closePath(ctx.path)]
  /\ isDrawing' = isDrawing
  /\ saveStateToHistory

\* stopDrawing, lines 85-90
stopDrawing ==
  /\ ctx' = [ctx EXCEPT !.path = closePath(ctx.path)]
  /\ isDrawing' = FALSE
  /\ saveStateToHistory

\* undoLastStroke guarded by >= 0: it also undoes the first snapshot, and
\* then has no previous state to load
undoLastStrokeAtZero(k) ==
  IF k.currentHistoryIndex >= 0
    THEN /\ BagCardinality(loading) < MaxLoading
         /\ redoHistory' =
              Append(redoHistory, At(k.history, k.currentHistoryIndex))
         /\ currentHistoryIndex' = currentHistoryIndex - 1
         /\ loading' =
              IF k.currentHistoryIndex > 0
                THEN loading (+)
                       SetToBag({At(k.history, k.currentHistoryIndex - 1)})
                ELSE loading
         /\ lastReq' =
              IF k.currentHistoryIndex > 0
                THEN <<At(k.history, k.currentHistoryIndex - 1)>>
                ELSE lastReq
         /\ runEffect(FALSE, TRUE, history, redoHistory',
                      currentHistoryIndex')
         /\ UNCHANGED history
    ELSE UNCHANGED <<history, redoHistory, currentHistoryIndex, loading,
                     lastReq, listener, registered>>

\* undoLastStroke, lines 93-117, as closed over by the listener k
undoLastStroke(k) ==
  IF k.currentHistoryIndex > 0
    THEN /\ BagCardinality(loading) < MaxLoading
         /\ redoHistory' =
              Append(redoHistory, At(k.history, k.currentHistoryIndex))
         /\ currentHistoryIndex' = currentHistoryIndex - 1
         /\ loading' =
              loading (+) SetToBag({At(k.history, k.currentHistoryIndex - 1)})
         /\ lastReq' = <<At(k.history, k.currentHistoryIndex - 1)>>
         /\ runEffect(FALSE, TRUE, history, redoHistory',
                      currentHistoryIndex')
         /\ UNCHANGED history
    ELSE UNCHANGED <<history, redoHistory, currentHistoryIndex, loading,
                     lastReq, listener, registered>>

\* redoLastStroke, lines 120-143, as closed over by the listener k
redoLastStroke(k) ==
  IF Len(k.redoHistory) > 0
    THEN LET lastUndoneState == At(k.redoHistory, Len(k.redoHistory) - 1)
         IN /\ BagCardinality(loading) < MaxLoading
            /\ Len(history) < MaxHistory
            /\ loading' = loading (+) SetToBag({lastUndoneState})
            /\ lastReq' = <<lastUndoneState>>
            /\ history' = Append(history, lastUndoneState)
            /\ currentHistoryIndex' = currentHistoryIndex + 1
            /\ redoHistory' = slice(redoHistory, Len(redoHistory) - 1)
            /\ runEffect(TRUE, TRUE, history', redoHistory',
                         currentHistoryIndex')
    ELSE UNCHANGED <<history, redoHistory, currentHistoryIndex, loading,
                     lastReq, listener, registered>>

IsUndoKey(e) == (e.ctrlKey \/ e.metaKey) /\ e.key = "z"

IsRedoKey(e) == (e.ctrlKey \/ e.metaKey) /\ e.key = "y"

\* handleKeyDown, lines 21-29, of the listener that closes over k
handleKeyDown(k, e) ==
  IF IsUndoKey(e) THEN undoLastStroke(k)
  ELSE IF IsRedoKey(e) THEN redoLastStroke(k)
  ELSE UNCHANGED <<history, redoHistory, currentHistoryIndex, loading,
                   lastReq, listener, registered>>

\* img.onload, lines 111-114 and 130-133
onload(img) ==
  canvas' = drawImage(clearRect(canvas), img, ctx.globalCompositeOperation)

\* ---------------------------------------------------------------- events
\* onMouseDown, line 156
MouseDown(b, p) ==
  /\ mounted
  /\ startDrawing([button |-> b, offsetX |-> p])
  /\ log' = IF b = 1 THEN Note("down-other")
            ELSE IF isDrawing \/ loading # EmptyBag THEN Off ELSE log
  /\ lastReq' = IF b = 1 THEN lastReq ELSE NoReq
  /\ UNCHANGED <<canvas, isEraser, history, redoHistory,
                 currentHistoryIndex, listener, registered, mounted, loading>>

\* onMouseMove, line 157
MouseMove(p) ==
  /\ mounted
  /\ draw([offsetX |-> p])
  /\ log' = IF isDrawing THEN log ELSE Note("idle-move")
  /\ lastReq' = IF isDrawing THEN NoReq ELSE lastReq
  /\ UNCHANGED <<isDrawing, isEraser, history, redoHistory,
                 currentHistoryIndex, listener, registered, mounted, loading>>

\* onMouseUp, line 158
MouseUp ==
  /\ mounted
  /\ stopDrawing
  /\ log' = IF isDrawing /\ loading = EmptyBag THEN Record("stroke") ELSE Off
  /\ lastReq' = NoReq
  /\ UNCHANGED <<canvas, isEraser, mounted, loading>>

\* onMouseLeave, line 159
MouseLeave ==
  /\ mounted
  /\ stopDrawing
  /\ log' = IF isDrawing /\ loading = EmptyBag THEN Record("leave") ELSE Off
  /\ lastReq' = NoReq
  /\ UNCHANGED <<canvas, isEraser, mounted, loading>>

\* a keydown event on the document, dispatched to a registered listener
\* (line 31); with none registered nothing runs
KeyDown(e) ==
  /\ IF registered = <<>>
       THEN UNCHANGED <<history, redoHistory, currentHistoryIndex, loading,
                        lastReq, listener, registered, log>>
       ELSE /\ \E i \in DOMAIN registered : handleKeyDown(registered[i], e)
            /\ log' = IF IsUndoKey(e) \/ IsRedoKey(e)
                        THEN IF isDrawing \/ loading # EmptyBag THEN Off
                             ELSE Record(IF IsUndoKey(e) THEN "undo"
                                                         ELSE "redo")
                        ELSE log
  /\ UNCHANGED <<canvas, ctx, isDrawing, isEraser, mounted>>

\* the load event of one of the outstanding Images, in any order
ImgOnload(img) ==
  /\ BagIn(img, loading)
  /\ onload(img)
  /\ loading' = loading (-) SetToBag({img})
  /\ UNCHANGED <<ctx, isDrawing, isEraser, history, redoHistory,
                 currentHistoryIndex, listener, registered, mounted, log,
                 lastReq>>

\* the component unmounts: the cleanup of the effect, lines 33-35
Unmount ==
  /\ mounted
  /\ mounted' = FALSE
  /\ registered' = removeEventListener(registered, listener)
  /\ UNCHANGED <<canvas, ctx, isDrawing, isEraser, history, redoHistory,
                 currentHistoryIndex, listener, loading, log, lastReq>>

Next ==
  \/ \E b \in Buttons, p \in Cells : MouseDown(b, p)
  \/ \E p \in Cells : MouseMove(p)
  \/ MouseUp
  \/ MouseLeave
  \/ \E e \in KeyEvents : KeyDown(e)
  \/ \E img \in Images : ImgOnload(img)
  \/ Unmount

Spec == Init /\ [][Next]_vars

TypeOK ==
  /\ canvas \subseteq Cells
  /\ isDrawing \in BOOLEAN
  /\ currentHistoryIndex \in (0 - 1) .. MaxHistory
  /\ Len(history) <= MaxHistory
  /\ BagCardinality(loading) <= MaxLoading
  /\ mounted \in BOOLEAN
  /\ Len(registered) <= 1

\* the registered handleKeyDown always closes over the current state
ListenerFresh ==
  listener = useEffect(history, redoHistory, currentHistoryIndex)

\* ------------------------------------------------------------------ claims
Idle == ~isDrawing /\ loading = EmptyBag

Stroke(i) == toDataURL(log[i].canvas)

UndoKeyDown == \E e \in KeyEvents : IsUndoKey(e) /\ KeyDown(e)

RedoKeyDown == \E e \in KeyEvents : IsRedoKey(e) /\ KeyDown(e)

\* C1: after N >= 1 completed strokes from an empty history, N undo() and
\* then N redo(), every decode completing before the next call, the canvas
\* equals the canvas after the Nth stroke.
C1_UndoRedoInverse ==
  \A n \in 1 .. MaxHistory :
    (Ops(log) = UndoRedoInverse(n) /\ Idle) => canvas = log[n].canvas

\* C2: when several decodes of undo/redo requests are outstanding, then in
\* whatever order their onload handlers fire, once all have fired the canvas
\* holds what the handler draws for the last issued request's snapshot.
C2_LastRequestWins ==
  (loading = EmptyBag /\ lastReq # NoReq) =>
    canvas = drawImage(Blank, lastReq[1], ctx.globalCompositeOperation)

\* C3, as stated: after strokes A and B and one undo(), a second undo() leaves
\* the canvas blank and currentHistoryIndex = -1.
C3_SecondUndoBlank ==
  (Ops(log) = <<"stroke", "stroke", "undo", "undo">> /\ Idle) =>
    (canvas = Blank /\ currentHistoryIndex = 0 - 1)

\* C3, amended: after strokes A and B and one undo(), a second undo() is a
\* no-op: it starts no decode, the canvas is as the first undo left it,
\* currentHistoryIndex stays 0, history stays [A, B] and redoHistory [B].
C3_SecondUndoNoOp ==
  (Ops(log) = <<"stroke", "stroke", "undo", "undo">> /\ ~isDrawing) =>
    /\ loading = EmptyBag
    /\ canvas = log[4].canvas
    /\ currentHistoryIndex = 0
    /\ history = <<Stroke(1), Stroke(2)>>
    /\ redoHistory = <<Stroke(2)>>

C3_Witness ==
  Ops(log) = <<"stroke", "stroke", "undo", "undo">> /\ Idle

\* C4, as stated: in the scenario A, B, undo, undo, redo, C, redo the canvas
\* after the first redo shows the state after A, the final redo is a no-op
\* and history is exactly [A, C].
C4_ScenarioHistoryAC ==
  /\ (Ops(log) = SubSeq(Scenario, 1, 5) /\ Idle) => canvas = log[1].canvas
  /\ (Ops(log) = Scenario /\ ~isDrawing) =>
       /\ loading = EmptyBag
       /\ canvas = log[7].canvas
       /\ history = <<Stroke(1), Stroke(6)>>

\* C4, amended: in the scenario A, B, undo, undo, redo, C, redo the first
\* redo restores the canvas from snapshot B (not A), the final redo is a
\* no-op and history is exactly [A, B, C], the cursor on C.
C4_ScenarioHistoryABC ==
  /\ (Ops(log) = SubSeq(Scenario, 1, 5) /\ ~isDrawing) =>
       /\ lastReq = <<Stroke(2)>>
       /\ loading = EmptyBag =>
            canvas = drawImage(Blank, Stroke(2), ctx.globalCompositeOperation)
  /\ (Ops(log) = Scenario /\ ~isDrawing) =>
       /\ loading = EmptyBag
       /\ canvas = log[7].canvas
       /\ history = <<Stroke(1), Stroke(2), Stroke(6)>>
       /\ currentHistoryIndex = 2
       /\ redoHistory = <<>>

C4_Witness ==
  Ops(log) = Scenario /\ Idle /\ Stroke(1) # Stroke(2) /\ Stroke(2) # Stroke(6)

EndStroke == MouseUp \/ MouseLeave

\* C5: with nothing undone, a pointer-up or pointer-leave appends exactly one
\* snapshot to history when a stroke is active and none when no stroke is
\* active.
C5_OneSnapshotPerStroke ==
  [][(EndStroke /\ currentHistoryIndex = Len(history) - 1) =>
       Len(history') = Len(history) + (IF isDrawing THEN 1 ELSE 0)]_vars

\* C6: a non-empty redoHistory stays as it is through pointer events that
\* begin no stroke: pointer-move, pointer-up and pointer-leave while no stroke
\* is active, and pointer-down with a button other than 0 and 2.
C6_RedoSurvivesIdlePointer ==
  [][(/\ redoHistory # <<>>
      /\ ~isDrawing
      /\ \/ EndStroke
         \/ \E p \in Cells : MouseMove(p)
         \/ \E p \in Cells : MouseDown(1, p)) =>
       redoHistory' = redoHistory]_vars

\* C7: after any pointer-up or pointer-leave, also one that truncates history
\* after undos, the snapshot at history[currentHistoryIndex] renders to the
\* live canvas and currentHistoryIndex = history.length - 1.
C7_CommitInvariant ==
  [][EndStroke =>
       /\ currentHistoryIndex' = Len(history') - 1
       /\ Rendered(At(history', currentHistoryIndex')) = canvas']_vars

C7_Witness ==
  /\ Ops(log) = SubSeq(BranchDiscard, 1, 4)
  /\ ~isDrawing
  /\ Len(history) = 2

\* C8: after one undo() and a newly completed stroke, redoHistory is empty
\* and redo() is a no-op: no decode starts and canvas, history,
\* currentHistoryIndex and redoHistory stay as the stroke's commit left them,
\* the undone snapshot being no longer in history.
C8_BranchDiscard ==
  /\ (Ops(log) = SubSeq(BranchDiscard, 1, 4) /\ ~isDrawing) =>
       /\ redoHistory = <<>>
       /\ listener.redoHistory = <<>>
       /\ history = <<Stroke(1), Stroke(4)>>
       /\ currentHistoryIndex = 1
  /\ (Ops(log) = BranchDiscard /\ ~isDrawing) =>
       /\ loading = EmptyBag
       /\ canvas = log[5].canvas
       /\ history = <<Stroke(1), Stroke(4)>>
       /\ currentHistoryIndex = 1
       /\ redoHistory = <<>>

C8_Witness ==
  Ops(log) = BranchDiscard /\ Idle /\ Stroke(2) # Stroke(4)

\* C9: undo() at currentHistoryIndex <= 0 and redo() with an empty
\* redoHistory change none of canvas, history, currentHistoryIndex and
\* redoHistory and start no decode.
C9_NoOpBounds ==
  [][((UndoKeyDown /\ currentHistoryIndex <= 0)
        \/ (RedoKeyDown /\ redoHistory = <<>>)) =>
       UNCHANGED <<canvas, history, currentHistoryIndex, redoHistory,
                   loading>>]_vars

C9_Witness ==
  Ops(log) = UndoRedoInverse(1) /\ Idle

\* C10: in every reachable state -1 <= currentHistoryIndex <= history.length - 1.
C10_CursorInRange ==
  /\ 0 - 1 <= currentHistoryIndex
  /\ currentHistoryIndex <= Len(history) - 1

C10_Witness ==
  /\ currentHistoryIndex = 0
  /\ Len(history) = 3
  /\ Len(redoHistory) = 2


\* a decode completes
Decode == \E img \in Images : ImgOnload(img)

\* the only decode outstanding is that of the last undo or redo, and no
\* pointer event came after that request
LastRequestAlone == lastReq # NoReq /\ loading = SetToBag({lastReq[1]})

\* C11: when the decode of an undo() or redo() whose precondition held
\* completes before the next event, the Surface is the snapshot
\* History[currentIndex], after any mix of strokes, undos and redos.
C11_SurfaceIsCurrentSnapshot ==
  [][(Decode /\ LastRequestAlone)
       => canvas' = Decoded(At(history, currentHistoryIndex))]_vars

\* C12: undo() immediately followed by redo() leaves History (same sequence,
\* same length), currentIndex and RedoBuffer exactly as they were before the
\* undo, so undo/redo cycles do not grow History.
C12_UndoThenRedoRestores ==
  Ops(log) = UndoThenRedo
    => /\ history = <<Stroke(1), Stroke(2)>>
       /\ currentHistoryIndex = 1
       /\ redoHistory = <<>>

\* C13: when the pointer leaves the surface while a stroke is active, the
\* stroke is committed: isDrawing becomes false, exactly one snapshot of the
\* Surface is appended to History with currentIndex advanced; and a
\* pointer-move with no stroke active draws nothing.
C13_LeaveCommitsStroke ==
  [][/\ (MouseLeave /\ isDrawing)
          => /\ ~isDrawing'
             /\ history' = Append(slice(history, currentHistoryIndex + 1),
                                  toDataURL(canvas))
             /\ currentHistoryIndex' = currentHistoryIndex + 1
             /\ canvas' = canvas
     /\ ((\E p \in Cells : MouseMove(p)) /\ ~isDrawing)
          => canvas' = canvas]_vars

\* the pointer left during the first stroke, which inked the Surface
C13_Witness ==
  /\ Ops(log) = LeaveCommit
  /\ canvas # Blank
  /\ ~isDrawing
  /\ history = <<toDataURL(canvas)>>
  /\ currentHistoryIndex = 0

\* C14: while mounted, through every change of history and redoHistory,
\* exactly one keydown listener of the widget is registered on the document,
\* the one of the last effect; after unmount none is registered.
C14_OneListener ==
  /\ mounted => registered = <<listener>>
  /\ ~mounted => registered = <<>>

\* unmounted after the effect re-ran for commits and for an undo
C14_Witness ==
  /\ ~mounted
  /\ registered = <<>>
  /\ Len(history) >= 2
  /\ redoHistory # <<>>

EraseMode(c) ==
  /\ c.globalCompositeOperation = "destination-out"
  /\ c.lineWidth = EraserWidth

PenMode(c) ==
  /\ c.globalCompositeOperation = "source-over"
  /\ c.lineWidth = PenWidth

\* C15: a stroke begun with the secondary button, or with the eraser toggle
\* on, uses the erase mode (destination-out, width 20), and a stroke begun
\* with the primary button and the toggle off uses the pen mode (source-over,
\* width 2); only the beginning of a stroke changes the mode, and every
\* segment of the stroke is composited with it: a pen segment inks its cells
\* and removes none, an erase segment clears its cells and inks none.
C15_ModeFixedAtBegin ==
  [][/\ \A b \in {0, 2}, p \in Cells :
          MouseDown(b, p)
            => IF b = 2 \/ isEraser THEN EraseMode(ctx') ELSE PenMode(ctx')
     /\ <<ctx.globalCompositeOperation, ctx.lineWidth>>
           # <<ctx'.globalCompositeOperation, ctx'.lineWidth>>
          => \E b \in {0, 2}, p \in Cells : MouseDown(b, p)
     /\ \A p \in Cells :
          (MouseMove(p) /\ isDrawing)
            => IF ctx.globalCompositeOperation = "source-over"
                 THEN /\ canvas \subseteq canvas'
                      /\ Segment(ctx.path.pos, p) \subseteq canvas'
                 ELSE /\ canvas' \subseteq canvas
                      /\ canvas' \cap Segment(ctx.path.pos, p) = {}]_vars

\* an erase stroke in progress has cleared the ink of the committed snapshot
C15_Witness ==
  /\ isDrawing
  /\ EraseMode(ctx)
  /\ ctx.path.cells # {}
  /\ currentHistoryIndex >= 0
  /\ Decoded(At(history, currentHistoryIndex)) # Blank
  /\ canvas = Blank

\* C16: a pointer-down with a button other than 0 and 2 is ignored:
\* isDrawing, the path and the tool mode (ctx), the Surface, History,
\* currentIndex and RedoBuffer are unchanged.
C16_OtherButtonIgnored ==
  [][\A p \in Cells :
       MouseDown(1, p)
         => UNCHANGED <<isDrawing, ctx, canvas, history, currentHistoryIndex,
                        redoHistory>>]_vars

\* the middle button was pressed after a first pen stroke
C16_Witness ==
  /\ Ops(log) = <<"stroke", "down-other">>
  /\ canvas # Blank
  /\ canvas = log[1].canvas
  /\ PenMode(ctx)
  /\ ~isDrawing
  /\ history = <<Stroke(1)>>
  /\ currentHistoryIndex = 0

\* C17: a pointer-move while isDrawing is false is a no-op: the Surface, the
\* path, isDrawing, History, currentIndex and RedoBuffer are unchanged.
C17_IdleMoveNoOp ==
  [][\A p \in Cells :
       (MouseMove(p) /\ ~isDrawing)
         => UNCHANGED <<canvas, ctx, isDrawing, history, currentHistoryIndex,
                        redoHistory>>]_vars

\* the pointer moved over the canvas after a first stroke had inked it
C17_Witness ==
  /\ Ops(log) = <<"stroke", "idle-move">>
  /\ canvas # Blank
  /\ canvas = log[1].canvas
  /\ ~isDrawing
  /\ ctx.path.cells # {}
  /\ history = <<Stroke(1)>>

\* C18: for every interleaving of pointer events, undo/redo requests and
\* decode completions, once no decode is outstanding and no stroke is active
\* the Surface equals the snapshot History[currentIndex]; a decode that
\* completes after a later stroke was committed does not leave the Surface
\* different from the snapshot of that commit.  (Stated for the pen mode,
\* in which a decoded image is drawn as it is.)
C18_SurfaceMatchesHistory ==
  (Idle /\ currentHistoryIndex >= 0
        /\ ctx.globalCompositeOperation = "source-over")
    => canvas = Decoded(At(history, currentHistoryIndex))

\* C19: the keydown handler registered at any moment closes over the current
\* history, currentHistoryIndex and redoHistory (every step that changes
\* currentHistoryIndex also stores a new history or redoHistory and so
\* re-runs the effect): a key event never runs undo or redo on stale values.
C19_HandlerNeverStale ==
  \A i \in DOMAIN registered :
    registered[i] = useEffect(history, redoHistory, currentHistoryIndex)

\* Ctrl+Z and then Ctrl+Y have run, and the handler now registered closes
\* over the index and the empty redoHistory that the redo left
C19_Witness ==
  /\ Ops(log) = UndoThenRedo
  /\ Len(registered) = 1
  /\ registered[1].currentHistoryIndex = 1
  /\ registered[1].redoHistory = <<>>
  /\ Len(registered[1].history) = 3

============================================================================
